---- MODULE Spec2Model ----
(***************************************************************************)
(* A model of the Apex reference-guide parser: the PDF pipeline of         *)
(* processor.py (PDFDocProcessor), the regex extractor of patterns.py      *)
(* (ContentExtractor), the text parser of apex_parser.py and the signature *)
(* regexes of simpleChunker.py.                                            *)
(*                                                                         *)
(* Text is a sequence of tokens, one token per lexical unit the regular    *)
(* expressions of the source tell apart: a newline, a page marker, a       *)
(* heading such as "Alpha Namespace", a method signature, an ordinary      *)
(* word.  Offsets are 0-based token offsets, as Python's are character     *)
(* offsets; Slice(t, a, b) is Python's t[a:b].                             *)
(***************************************************************************)
EXTENDS Integers, Sequences, FiniteSets, TLC

VARIABLES
    pc,            \* position of the pipeline: "start", "loop", "extracted", "done"
    pdf,           \* the pages of the PDF, each the lines page.extract_text() gives
    page_i,        \* the pages enumerate(pdf.pages) has consumed
    all_text,      \* extract_text_from_pdf's accumulator
    current_page,  \* PDFDocProcessor.current_page
    text,          \* what extract_text_from_pdf returned: Some(s) or None
    doc,           \* what process_pdf returned
    arg,           \* the argument of the function a function-level specification applies
    ret            \* that function's result

\* The variables of the PDF pipeline, and those of the function-level specifications.
pipeVars == <<pdf, page_i, all_text, current_page, text, doc>>

funVars == <<arg, ret>>

vars == <<pc, pdf, page_i, all_text, current_page, text, doc, arg, ret>>

-----------------------------------------------------------------------------
(* Bounds of the model *)

\* The lines and page breaks a generated PDF holds in all.
MaxItems == 4

\* The tokens of a content handed to find_page_range, and its page numbers.
MaxContentLen == 4

MaxPageNo == 2

\* The atoms of a text handed to clean_description.
MaxCleanLen == 4

\* The lines of a text handed to the extractors directly.
MaxTextLines == 4

\* The parameters of a generated signature.
MaxParams == 2

-----------------------------------------------------------------------------
(* Tokens *)

Tok(k, v) == [k |-> k, v |-> v]

NL == Tok("nl", 0)

PageOpen(n) == Tok("open", n)

PageClose(n) == Tok("close", n)

Word == Tok("word", 0)

TitleLine == Tok("title", 0)

IntroLine == Tok("intro", 0)

MethodLine == Tok("meth", 0)

Heading(kind, name) == Tok(kind, name)

\* The letters of a heading's name, by case: name 1 is like "Alpha", name 2 like "ABar".
NameChars(name) == IF name = 2 THEN <<"U", "U", "l", "l">> ELSE <<"U", "l", "l">>

Slice(t, a, b) == SubSeq(t, a + 1, b)

None == [none |-> TRUE, s |-> <<>>]

Some(s) == [none |-> FALSE, s |-> s]

EmptyDict == [x \in {} |-> x]

-----------------------------------------------------------------------------
(* patterns.py: the heading patterns and the spans of ContentExtractor *)

At(t, i) == t[i + 1]

\* "^" under re.MULTILINE: offset i is the start of t or follows a newline.
LineStart(t, i) == i = 0 \/ At(t, i - 1) = NL

\* "\s*$" under re.MULTILINE, after the token at offset i: the line ends there.
LineEnd(t, i) == i + 1 = Len(t) \/ At(t, i + 1) = NL

\* NAMESPACE_START, CLASS_START, DML_OPERATION['start'] matched at offset i
\* with re.MULTILINE: "^([A-Z][a-zA-Z]+)\s+<Keyword>\s*$".
MatchesHeading(t, i, kind) ==
    /\ At(t, i).k = kind
    /\ LineStart(t, i)
    /\ LineEnd(t, i)

\* METHOD_START matched at offset i with re.MULTILINE: anchored at "^" only.
MatchesMethod(t, i) == At(t, i).k = "meth" /\ LineStart(t, i)

\* The offsets of a text.
Offsets(t) == 0..(Len(t) - 1)

\* re.finditer(pattern, t, re.MULTILINE), hits being the offsets at which the
\* pattern matches: the offsets of the matches, in order.
FindIter(t, hits) ==
    SelectSeq([j \in 1..Len(t) |-> j - 1], LAMBDA i : i \in hits)

\* "[A-Z][a-zA-Z]+" on a name that lost its first letter.
TailIsName(name) ==
    LET rest == Tail(NameChars(name))
    IN  Len(rest) >= 2 /\ rest[1] = "U"

\* re.search(<heading pattern>, t[start_pos + 1:]) WITHOUT re.MULTILINE, where
\* start_pos is the offset of a heading: "^" matches at the start of the
\* slice only and "$" at its end only, so the one possible match is at slice
\* offset 0, when the heading less its first letter still reads as a heading
\* and nothing but whitespace follows it.  The match's start, or -1 for None.
SearchHeading(t, start_pos, kind) ==
    IF /\ At(t, start_pos).k = kind
       /\ TailIsName(At(t, start_pos).v)
       /\ \A j \in (start_pos + 1)..(Len(t) - 1) : At(t, j) = NL
    THEN 0
    ELSE -1

\* re.search(METHOD_START, t[start_pos + 1:]) without re.MULTILINE: the slice
\* starts inside the visibility word ("ublic", "rivate", "rotected"), which
\* "^(?:public|private|protected)" never matches.
SearchMethod(t, start_pos) == -1

\* end_pos = next_match.start() + start_pos if next_match else len(text)
EndPos(t, start_pos, next_match) ==
    IF next_match # -1 THEN next_match + start_pos ELSE Len(t)

\* ContentExtractor.find_page_range: the first "[PAGE_n]" of the content, and
\* the first "[/PAGE_n]" that no "[/PAGE_n]" follows on its own line ("." does
\* not cross a newline: the search is made without re.DOTALL).
find_page_range(content) ==
    LET opens  == FindIter(content, {i \in Offsets(content) : At(content, i).k = "open"})
        closes == FindIter(content, {i \in Offsets(content) :
                      /\ At(content, i).k = "close"
                      /\ ~ \E j \in (i + 1)..(Len(content) - 1) :
                             /\ At(content, j).k = "close"
                             /\ \A m \in (i + 1)..(j - 1) : At(content, m) # NL})
    IN  [start |-> IF Len(opens) > 0 THEN At(content, opens[1]).v ELSE 0,
         end   |-> IF Len(closes) > 0 THEN At(content, closes[1]).v ELSE 0]

\* ContentExtractor.extract_methods
extract_methods(t) ==
    LET method_matches == FindIter(t, {i \in Offsets(t) : MatchesMethod(t, i)})
    IN  [j \in 1..Len(method_matches) |->
            LET start_pos == method_matches[j]
                end_pos   == EndPos(t, start_pos, SearchMethod(t, start_pos))
            IN  [start_pos |-> start_pos, end_pos |-> end_pos]]

\* ContentExtractor.extract_classes
extract_classes(t) ==
    LET class_matches == FindIter(t, {i \in Offsets(t) : MatchesHeading(t, i, "cls")})
    IN  [j \in 1..Len(class_matches) |->
            LET start_pos == class_matches[j]
                end_pos   == EndPos(t, start_pos, SearchHeading(t, start_pos, "cls"))
                class_content == Slice(t, start_pos, end_pos)
            IN  [name      |-> At(t, start_pos).v,
                 start_pos |-> start_pos,
                 end_pos   |-> end_pos,
                 methods   |-> extract_methods(class_content)]]

\* ContentExtractor.extract_namespaces
extract_namespaces(t) ==
    LET namespace_matches == FindIter(t, {i \in Offsets(t) : MatchesHeading(t, i, "ns")})
    IN  [j \in 1..Len(namespace_matches) |->
            LET start_pos == namespace_matches[j]
                end_pos   == EndPos(t, start_pos, SearchHeading(t, start_pos, "ns"))
                section_content == Slice(t, start_pos, end_pos)
            IN  [name        |-> At(t, start_pos).v,
                 start_pos   |-> start_pos,
                 end_pos     |-> end_pos,
                 subsections |-> extract_classes(section_content),
                 pageRange   |-> find_page_range(section_content)]]

\* ContentExtractor.extract_dml_operations
extract_dml_operations(t) ==
    LET operation_matches == FindIter(t, {i \in Offsets(t) : MatchesHeading(t, i, "stmt")})
    IN  [j \in 1..Len(operation_matches) |->
            LET start_pos == operation_matches[j]
                end_pos   == EndPos(t, start_pos, SearchHeading(t, start_pos, "stmt"))
            IN  [name      |-> At(t, start_pos).v,
                 start_pos |-> start_pos,
                 end_pos   |-> end_pos]]

-----------------------------------------------------------------------------
(* processor.py: PDFDocProcessor *)

PageBreak == Tok("break", 0)

\* The lines a generated page may hold.
LineTokens ==
    {Heading("ns", 1), Heading("ns", 2), Heading("cls", 1), Heading("stmt", 1),
     MethodLine, Word, TitleLine, IntroLine}

RECURSIVE SplitPages(_)
\* The pages of a PDF written as lines and page breaks.
SplitPages(items) ==
    IF items = <<>> THEN << <<>> >>
    ELSE LET rest == SplitPages(Tail(items))
         IN  IF Head(items) = PageBreak
             THEN << <<>> >> \o rest
             ELSE << <<Head(items)>> \o rest[1] >> \o Tail(rest)

PdfSet ==
    {SplitPages(items) :
        items \in UNION {[1..n -> LineTokens \cup {PageBreak}] : n \in 0..MaxItems}}

RECURSIVE JoinLines(_)
\* page.extract_text(): the page's lines, a newline between two of them.
JoinLines(lines) ==
    IF lines = <<>> THEN <<>>
    ELSE IF Len(lines) = 1 THEN lines
    ELSE <<Head(lines), NL>> \o JoinLines(Tail(lines))

\* f"\n[PAGE_{i+1}]\n{text}\n[/PAGE_{i+1}]\n"
WrapPage(n, page_text) ==
    <<NL, PageOpen(n), NL>> \o page_text \o <<NL, PageClose(n), NL>>

\* re.search(PDFPatterns.TITLE, text).group(0), "" when there is no match.
TitleOf(t) ==
    IF \E i \in 0..(Len(t) - 1) : At(t, i) = TitleLine
    THEN "APEX REFERENCE GUIDE"
    ELSE ""

\* re.search(PDFPatterns.MAIN_DESC, text, re.DOTALL).group(0): from the first
\* "Apex is a strongly typed" up to the first blank line after it; <<>> when
\* there is no match.
DescriptionOf(t) ==
    LET starts == FindIter(t, {i \in Offsets(t) : At(t, i) = IntroLine})
        Blank(i) == i + 1 < Len(t) /\ At(t, i) = NL /\ At(t, i + 1) = NL
    IN  IF starts = <<>> \/ ~ \E j \in (starts[1] + 1)..(Len(t) - 1) : Blank(j)
        THEN <<>>
        ELSE Slice(t, starts[1],
                   CHOOSE j \in (starts[1] + 1)..(Len(t) - 1) :
                       /\ Blank(j)
                       /\ \A m \in (starts[1] + 1)..(j - 1) : ~ Blank(m))

InitPdf ==
    /\ pc = "start"
    /\ pdf \in PdfSet
    /\ page_i = 0
    /\ all_text = <<>>
    /\ current_page = 0
    /\ text = None
    /\ doc = EmptyDict
    /\ arg = <<>>
    /\ ret = <<>>

\* pdfplumber.open(pdf_path) succeeds; all_text = "".
OpenPdf ==
    /\ pc = "start"
    /\ pc' = "loop"
    /\ UNCHANGED <<pdf, page_i, all_text, current_page, text, doc>>
    /\ UNCHANGED funVars

\* pdfplumber.open raises: the except branch returns None.
OpenRaises ==
    /\ pc = "start"
    /\ pc' = "extracted"
    /\ text' = None
    /\ UNCHANGED <<pdf, page_i, all_text, current_page, doc>>
    /\ UNCHANGED funVars

\* The loop's turn with "self.current_page = i + 1" moved under "if text:":
\* a page without text leaves current_page as it was.
ExtractPage_CountsTextPages ==
    /\ pc = "loop"
    /\ page_i < Len(pdf)
    /\ LET page_text == JoinLines(pdf[page_i + 1])
       IN  /\ all_text' = IF page_text # <<>>
                           THEN all_text \o WrapPage(page_i + 1, page_text)
                           ELSE all_text
           /\ current_page' = IF page_text # <<>>
                               THEN page_i + 1
                               ELSE current_page
    /\ page_i' = page_i + 1
    /\ UNCHANGED <<pc, pdf, text, doc>>
    /\ UNCHANGED funVars

\* One turn of the loop over enumerate(pdf.pages).
ExtractPage ==
    /\ pc = "loop"
    /\ page_i < Len(pdf)
    /\ current_page' = page_i + 1
    /\ LET page_text == JoinLines(pdf[page_i + 1])
       IN  all_text' = IF page_text # <<>>
                       THEN all_text \o WrapPage(page_i + 1, page_text)
                       ELSE all_text
    /\ page_i' = page_i + 1
    /\ UNCHANGED <<pc, pdf, text, doc>>
    /\ UNCHANGED funVars

\* page.extract_text() raises in a turn of the loop, after current_page is set.
ExtractRaises ==
    /\ pc = "loop"
    /\ page_i < Len(pdf)
    /\ current_page' = page_i + 1
    /\ text' = None
    /\ pc' = "extracted"
    /\ UNCHANGED <<pdf, page_i, all_text, doc>>
    /\ UNCHANGED funVars

\* The loop is over: return all_text.
ReturnText ==
    /\ pc = "loop"
    /\ page_i = Len(pdf)
    /\ text' = Some(all_text)
    /\ pc' = "extracted"
    /\ UNCHANGED <<pdf, page_i, all_text, current_page, doc>>
    /\ UNCHANGED funVars

\* The test as "if text is None": an empty text passes it.
NotText_OnlyNone == text.none

\* "if not text": None and "" alike.
NotText == text.none \/ text.s = <<>>

\* process_pdf: "if not text: return {}".
ProcessNoText ==
    /\ pc = "extracted"
    /\ NotText
    /\ doc' = EmptyDict
    /\ pc' = "done"
    /\ UNCHANGED <<pdf, page_i, all_text, current_page, text>>
    /\ UNCHANGED funVars

\* process_pdf: the document built from the text.
ProcessText ==
    /\ pc = "extracted"
    /\ ~ NotText
    /\ doc' = [title         |-> TitleOf(text.s),
               description   |-> DescriptionOf(text.s),
               metadata      |-> [totalPages |-> current_page],
               sections      |-> extract_namespaces(text.s),
               dmlOperations |-> [statements |-> extract_dml_operations(text.s)]]
    /\ pc' = "done"
    /\ UNCHANGED <<pdf, page_i, all_text, current_page, text>>
    /\ UNCHANGED funVars

-----------------------------------------------------------------------------
(* apex_parser.py: ApexDocParser, and the extractors applied to a text *)

\* namespace_pattern "^(\w+)\s+Namespace" and class_pattern "^(\w+)\s+Class",
\* both compiled with re.MULTILINE, matched at offset i.
ApexMatches(t, i, kind) == At(t, i).k = kind /\ LineStart(t, i)

\* pattern.finditer(text, pos): the matches at offsets from pos on, in order.
ApexFindIter(t, kind, pos) ==
    SelectSeq([j \in 1..Len(t) |-> j - 1],
              LAMBDA i : i >= pos /\ ApexMatches(t, i, kind))

\* method_pattern.finditer(text, class_match.end()): the pattern
\* "^(public|private|protected)\s+\w+\s+\w+\(.*\)" is compiled without
\* re.MULTILINE, so "^" matches at offset 0 of the text alone, which lies
\* before the end of any class heading.
ApexMethods(t, pos) ==
    SelectSeq([j \in 1..Len(t) |-> j - 1],
              LAMBDA i : i >= pos /\ i = 0 /\ At(t, i).k = "meth")

\* The loop over class_matches: each class found after the namespace heading
\* is appended, and the loop breaks after the first one that any namespace
\* heading follows ("if namespace_pattern.search(text, class_match.end())").
ApexClasses(t, pos) ==
    LET class_matches == ApexFindIter(t, "cls", pos)
        Breaks(j) == ApexFindIter(t, "ns", class_matches[j] + 1) # <<>>
        kept == {j \in 1..Len(class_matches) : \A m \in 1..(j - 1) : ~ Breaks(m)}
    IN  [j \in 1..Cardinality(kept) |->
            [name      |-> At(t, class_matches[j]).v,
             start_pos |-> class_matches[j],
             methods   |-> ApexMethods(t, class_matches[j] + 1)]]

\* ApexDocParser.extract_namespaces
apex_extract_namespaces(t) ==
    LET namespace_matches == ApexFindIter(t, "ns", 0)
    IN  [k \in 1..Len(namespace_matches) |->
            [name      |-> At(t, namespace_matches[k]).v,
             start_pos |-> namespace_matches[k],
             classes   |-> ApexClasses(t, namespace_matches[k] + 1)]]

\* ApexDocParser.parse_document
parse_document(t) ==
    [title       |-> "Apex Reference Guide",
     description |-> "Extracted Apex content organized by namespaces.",
     namespaces  |-> apex_extract_namespaces(t)]

\* The pipeline's variables, at rest while a function is applied on its own.
PipelineIdle ==
    /\ pdf = <<>>
    /\ page_i = 0
    /\ all_text = <<>>
    /\ current_page = 0
    /\ text = None
    /\ doc = EmptyDict

\* The lines a text read from a file may hold.
TextLineTokens ==
    {Heading("ns", 1), Heading("ns", 2), Heading("cls", 1), MethodLine, Word}

\* A text file's lines: apex_parser.py reads apex_reference.txt.
InitText ==
    /\ pc = "text_in"
    /\ arg \in UNION {[1..n -> TextLineTokens] : n \in 0..MaxTextLines}
    /\ ret = <<>>
    /\ PipelineIdle

\* ContentExtractor.extract_namespaces applied to the text.
ExtractFromText ==
    /\ pc = "text_in"
    /\ ret' = extract_namespaces(JoinLines(arg))
    /\ pc' = "text_extracted"
    /\ UNCHANGED arg
    /\ UNCHANGED pipeVars

\* ApexDocParser.parse_document applied to the text.
ParseDocument ==
    /\ pc = "text_in"
    /\ ret' = parse_document(JoinLines(arg)).namespaces
    /\ pc' = "text_parsed"
    /\ UNCHANGED arg
    /\ UNCHANGED pipeVars

Init == InitPdf \/ InitText

Next ==
    \/ OpenPdf
    \/ OpenRaises
    \/ ExtractPage
    \/ ExtractRaises
    \/ ReturnText
    \/ ProcessNoText
    \/ ProcessText
    \/ ExtractFromText
    \/ ParseDocument

Spec == Init /\ [][Next]_vars

-----------------------------------------------------------------------------
(* Properties of the pipeline's spans and containment *)

Done == pc = "done" /\ DOMAIN doc # {}

\* The spans of a sequence of sibling entries of t end where the next one starts.
SpansEndAtNext(t, entries) ==
    \A j \in 1..Len(entries) :
        entries[j].end_pos = IF j < Len(entries)
                             THEN entries[j + 1].start_pos
                             ELSE Len(t)

\* The spans of the namespaces extracted from t, of their classes and of
\* their methods, each level within the content of the level above.
NestedSpansEndAtNext(t, sections) ==
    /\ SpansEndAtNext(t, sections)
    /\ \A k \in 1..Len(sections) :
          LET ns == sections[k]
              section_content == Slice(t, ns.start_pos, ns.end_pos)
          IN  /\ SpansEndAtNext(section_content, ns.subsections)
              /\ \A j \in 1..Len(ns.subsections) :
                    LET cls == ns.subsections[j]
                    IN  SpansEndAtNext(
                            Slice(section_content, cls.start_pos, cls.end_pos),
                            cls.methods)

\* C1: in every heading category (namespace, class, method, statement) the
\* content span of the i-th heading ends exactly at the start of the next
\* line-anchored heading of the same pattern, or at the length of the text
\* scanned when there is none, so the spans are contiguous and do not overlap.
C1_SpansEndAtNextHeading ==
    /\ Done =>
          /\ NestedSpansEndAtNext(text.s, doc.sections)
          /\ SpansEndAtNext(text.s, doc.dmlOperations.statements)
    /\ pc = "text_extracted" => NestedSpansEndAtNext(JoinLines(arg), ret)

\* No class of namespace k starts at or after the heading of namespace k+1,
\* no method of a class at or after the next class of its namespace; the
\* offsets of a level are relative to the content of the level above.
ChildrenWithinSpan(sections) ==
    \A k \in 1..Len(sections) :
        LET ns == sections[k]
        IN  /\ k < Len(sections) =>
                  \A j \in 1..Len(ns.subsections) :
                      ns.start_pos + ns.subsections[j].start_pos
                          < sections[k + 1].start_pos
            /\ \A j \in 1..(Len(ns.subsections) - 1) :
                  LET cls == ns.subsections[j]
                  IN  \A m \in 1..Len(cls.methods) :
                          cls.start_pos + cls.methods[m].start_pos
                              < ns.subsections[j + 1].start_pos

\* The same of what ApexDocParser returns, whose offsets are those of the text.
ApexChildrenWithinSpan(namespaces) ==
    \A k \in 1..Len(namespaces) :
        LET ns == namespaces[k]
        IN  /\ k < Len(namespaces) =>
                  \A j \in 1..Len(ns.classes) :
                      ns.classes[j].start_pos < namespaces[k + 1].start_pos
            /\ \A j \in 1..(Len(ns.classes) - 1) :
                  \A m \in 1..Len(ns.classes[j].methods) :
                      ns.classes[j].methods[m] < ns.classes[j + 1].start_pos

\* C2: a class heading that lies after the heading of namespace k+1 is never
\* a child of namespace k or of an earlier one, and a method signature that
\* lies after the next class heading is never a method of the earlier class.
C2_NoChildAcrossNextHeading ==
    /\ Done => ChildrenWithinSpan(doc.sections)
    /\ pc = "text_extracted" => ChildrenWithinSpan(ret)
    /\ pc = "text_parsed" => ApexChildrenWithinSpan(ret)

RECURSIVE Flatten(_)
\* The lines of all the pages, in order.
Flatten(pages) ==
    IF pages = <<>> THEN <<>> ELSE Head(pages) \o Flatten(Tail(pages))

\* The positions of the lines of one kind among lines lo..hi.
LinesOfKind(lines, kind, lo, hi) ==
    SelectSeq([j \in 1..Len(lines) |-> j],
              LAMBDA j : lo <= j /\ j <= hi /\ lines[j].k = kind)

\* The construction behind a text: per namespace line, per class line under
\* it, the number of method lines under the class.
FixtureTree(lines) ==
    LET nsPos == LinesOfKind(lines, "ns", 1, Len(lines))
    IN  [k \in 1..Len(nsPos) |->
            LET hi == IF k < Len(nsPos) THEN nsPos[k + 1] - 1 ELSE Len(lines)
                clsPos == LinesOfKind(lines, "cls", nsPos[k], hi)
            IN  [j \in 1..Len(clsPos) |->
                    LET chi == IF j < Len(clsPos) THEN clsPos[j + 1] - 1 ELSE hi
                    IN  Len(LinesOfKind(lines, "meth", clsPos[j], chi))]]

\* A text constructed from namespaces, each of classes, each of methods.
IsFixture(lines) ==
    /\ lines # <<>>
    /\ lines[1].k = "ns"
    /\ \A j \in 1..Len(lines) : lines[j].k \in {"ns", "cls", "meth"}
    /\ \A j \in 2..Len(lines) :
          lines[j].k = "meth" => lines[j - 1].k \in {"cls", "meth"}

\* What the extractor returned: per namespace, per class, the number of methods.
DocTree(sections) ==
    [k \in 1..Len(sections) |->
        [j \in 1..Len(sections[k].subsections) |->
            Len(sections[k].subsections[j].methods)]]

\* The same of what ApexDocParser returned.
ApexTree(namespaces) ==
    [k \in 1..Len(namespaces) |->
        [j \in 1..Len(namespaces[k].classes) |->
            Len(namespaces[k].classes[j].methods)]]

InSourceOrder(entries) ==
    \A j \in 1..(Len(entries) - 1) : entries[j].start_pos < entries[j + 1].start_pos

AllInSourceOrder(sections) ==
    /\ InSourceOrder(sections)
    /\ \A k \in 1..Len(sections) :
          /\ InSourceOrder(sections[k].subsections)
          /\ \A j \in 1..Len(sections[k].subsections) :
                InSourceOrder(sections[k].subsections[j].methods)

\* C3: for a text constructed from namespaces, each of classes, each of
\* method signatures, the Document has as many namespaces, as many classes
\* under each namespace and as many methods under each class as the
\* construction, every child sequence in source order.
C3_CountsMatchFixture ==
    /\ (Done /\ IsFixture(Flatten(pdf))) =>
          /\ DocTree(doc.sections) = FixtureTree(Flatten(pdf))
          /\ AllInSourceOrder(doc.sections)
    /\ (pc = "text_extracted" /\ IsFixture(arg)) =>
          /\ DocTree(ret) = FixtureTree(arg)
          /\ AllInSourceOrder(ret)
    /\ (pc = "text_parsed" /\ IsFixture(arg)) =>
          /\ ApexTree(ret) = FixtureTree(arg)
          /\ InSourceOrder(ret)
          /\ \A k \in 1..Len(ret) : InSourceOrder(ret[k].classes)

\* C9: with every page wrapped as [PAGE_n] ... [/PAGE_n], n increasing, each
\* namespace has pageRange.start <= pageRange.end when both are non-zero.
C9_PageRangeOrdered ==
    Done =>
        \A k \in 1..Len(doc.sections) :
            LET r == doc.sections[k].pageRange
            IN  (r.start # 0 /\ r.end # 0) => r.start <= r.end

\* C10 as stated: unreadable or empty input gives a Document that still has
\* its fields, with an empty title, description, namespaces and statements.
C10_EmptyDocumentHasFields ==
    (pc = "done" /\ (text.none \/ text.s = <<>>)) =>
        /\ {"title", "description", "sections", "dmlOperations"} \subseteq DOMAIN doc
        /\ doc.title = ""
        /\ doc.description = <<>>
        /\ doc.sections = <<>>
        /\ doc.dmlOperations.statements = <<>>

\* C10 as amended: unreadable or empty input makes process_pdf return the
\* empty mapping, which has none of the Document's fields; the pipeline does
\* not fail: it always has its next step until it is done.
C10_NoTextGivesEmptyDict ==
    /\ (pc = "done" /\ (text.none \/ text.s = <<>>)) => DOMAIN doc = {}
    /\ (pc = "extracted" /\ (text.none \/ text.s = <<>>)) => ENABLED ProcessNoText

\* The pipeline is done after an extraction that raised on a later page.
C10_Witness ==
    /\ pc = "done"
    /\ text.none
    /\ all_text # <<>>
    /\ doc = EmptyDict

\* The page numbers of the page markers of a text.
MarkerNumbers(t) ==
    {t[i].v : i \in {j \in 1..Len(t) : t[j].k \in {"open", "close"}}}

\* The largest of them, 0 when the text has no page marker.
MaxMarker(t) ==
    IF MarkerNumbers(t) = {} THEN 0
    ELSE CHOOSE n \in MarkerNumbers(t) : \A m \in MarkerNumbers(t) : m <= n

\* C11 (as claimed): the page total of the produced Document is the largest
\* page number of the page markers of the document text; a page that gave no
\* marker does not raise it.
C11_TotalIsMaxMarker ==
    Done => doc.metadata.totalPages = MaxMarker(text.s)

\* C11 (amended): the page total of the produced Document is the number of
\* pages of the PDF, the pages without text among them: it is never 0, never
\* below the largest page number of the markers, and equal to it exactly when
\* the last page has text.
C11_TotalIsPageCount ==
    Done =>
        /\ doc.metadata.totalPages = Len(pdf)
        /\ doc.metadata.totalPages > 0
        /\ doc.metadata.totalPages >= MaxMarker(text.s)
        /\ (doc.metadata.totalPages = MaxMarker(text.s)) <=> (pdf[Len(pdf)] # <<>>)

\* A Document made from a PDF whose last page has no text: the total counts it.
C11_Witness ==
    /\ Done
    /\ pdf[Len(pdf)] = <<>>
    /\ MaxMarker(text.s) > 0
    /\ doc.metadata.totalPages = Len(pdf)
    /\ doc.metadata.totalPages > MaxMarker(text.s)

-----------------------------------------------------------------------------
(* find_page_range on its own *)

ContentTokens ==
    {PageOpen(n) : n \in 1..MaxPageNo} \cup {PageClose(n) : n \in 1..MaxPageNo}
        \cup {NL, Word}

InitPage ==
    /\ pc = "page_in"
    /\ arg \in UNION {[1..n -> ContentTokens] : n \in 0..MaxContentLen}
    /\ ret = [start |-> 0, end |-> 0]
    /\ PipelineIdle

FindPageRange ==
    /\ pc = "page_in"
    /\ ret' = find_page_range(arg)
    /\ pc' = "page_out"
    /\ UNCHANGED arg
    /\ UNCHANGED pipeVars

NextPage == FindPageRange

SpecPage == InitPage /\ [][NextPage]_vars

\* The page number of the first (last) token of a kind in the content, 0 if none.
FirstOf(content, kind) ==
    LET at == {i \in 1..Len(content) : content[i].k = kind}
    IN  IF at = {} THEN 0
        ELSE content[CHOOSE i \in at : \A j \in at : i <= j].v

LastOf(content, kind) ==
    LET at == {i \in 1..Len(content) : content[i].k = kind}
    IN  IF at = {} THEN 0
        ELSE content[CHOOSE i \in at : \A j \in at : j <= i].v

\* C8: the page range of a span starts at the page of the first [PAGE_n] in
\* it and ends at the page of the last [/PAGE_n] in it, on whatever lines the
\* markers lie; a side with no marker is 0, independently of the other.
C8_FirstOpenLastClose ==
    pc = "page_out" =>
        /\ ret.start = FirstOf(arg, "open")
        /\ ret.end = LastOf(arg, "close")

-----------------------------------------------------------------------------
(* patterns.py: ContentExtractor.clean_description.  A text is a sequence of
   atoms: a marker literal is cut in two halves, so that text may stand
   between them; the other atoms are one character or one word each. *)

CleanAtoms ==
    {"IN THIS SECT", "ION:", "SEE AL", "SO:", "Usage", "Example",
     "[PAGE_", "[/PAGE_", "1", "]", " ", "\n", "x"}

\* "\s"
IsSpace(a) == a \in {" ", "\n"}

\* "\d"
IsDigit(a) == a = "1"

\* "IN THIS SECTION:|SEE ALSO:" at the head of s.
LabelAtHead(s) ==
    /\ Len(s) >= 2
    /\ SubSeq(s, 1, 2) \in {<<"IN THIS SECT", "ION:">>, <<"SEE AL", "SO:">>}

RECURSIVE RemoveLabels(_)
\* re.sub(r'IN THIS SECTION:|SEE ALSO:', '', text): one pass, left to right.
RemoveLabels(s) ==
    IF s = <<>> THEN <<>>
    ELSE IF LabelAtHead(s) THEN RemoveLabels(SubSeq(s, 3, Len(s)))
    ELSE <<Head(s)>> \o RemoveLabels(Tail(s))

\* The length of the run of digits of s from index i on.
DigitRun(s, i) ==
    LET stop == {j \in i..(Len(s) + 1) : j = Len(s) + 1 \/ ~ IsDigit(s[j])}
    IN  (CHOOSE j \in stop : \A m \in stop : j <= m) - i

\* The length of the match of opener "\d+\]" at the head of s, 0 if none.
MarkerAtHead(s, opener) ==
    IF s # <<>> /\ Head(s) = opener /\ DigitRun(s, 2) >= 1
           /\ DigitRun(s, 2) + 2 <= Len(s) /\ s[DigitRun(s, 2) + 2] = "]"
    THEN DigitRun(s, 2) + 2
    ELSE 0

RECURSIVE RemovePageOpen(_)
\* re.sub(r'\[PAGE_\d+\]', '', text): one pass, left to right.
RemovePageOpen(s) ==
    IF s = <<>> THEN <<>>
    ELSE IF MarkerAtHead(s, "[PAGE_") > 0
         THEN RemovePageOpen(SubSeq(s, MarkerAtHead(s, "[PAGE_") + 1, Len(s)))
    ELSE <<Head(s)>> \o RemovePageOpen(Tail(s))

RECURSIVE LStrip(_)
LStrip(s) == IF s # <<>> /\ IsSpace(Head(s)) THEN LStrip(Tail(s)) ELSE s

RECURSIVE RStrip(_)
RStrip(s) ==
    IF s # <<>> /\ IsSpace(s[Len(s)]) THEN RStrip(SubSeq(s, 1, Len(s) - 1)) ELSE s

RECURSIVE CollapseSpace(_)
\* re.sub(r'\s+', ' ', text)
CollapseSpace(s) ==
    IF s = <<>> THEN <<>>
    ELSE IF IsSpace(Head(s)) THEN <<" ">> \o CollapseSpace(LStrip(s))
    ELSE <<Head(s)>> \o CollapseSpace(Tail(s))

\* ContentExtractor.clean_description
clean_description(s) ==
    RStrip(LStrip(CollapseSpace(RemovePageOpen(RemoveLabels(s)))))

InitClean ==
    /\ pc = "clean_in"
    /\ arg \in UNION {[1..n -> CleanAtoms] : n \in 0..MaxCleanLen}
    /\ ret = <<>>
    /\ PipelineIdle

CleanDescription ==
    /\ pc = "clean_in"
    /\ ret' = clean_description(arg)
    /\ pc' = "cleaned"
    /\ UNCHANGED arg
    /\ UNCHANGED pipeVars

NextClean == CleanDescription

SpecClean == InitClean /\ [][NextClean]_vars

\* C6: the cleaner is idempotent: cleaning a cleaned text changes nothing,
\* also when removing one marker brought the halves of another together.
C6_CleanIdempotent ==
    pc = "cleaned" => clean_description(ret) = ret

\* A token of the marker vocabulary starts at index i of s.
MarkerAt(s, i) ==
    LET rest == SubSeq(s, i, Len(s))
    IN  \/ LabelAtHead(rest)
        \/ Head(rest) \in {"Usage", "Example"}
        \/ MarkerAtHead(rest, "[PAGE_") > 0
        \/ MarkerAtHead(rest, "[/PAGE_") > 0

\* C7: a cleaned text holds no token of the marker vocabulary (the labels
\* IN THIS SECTION:, SEE ALSO:, Usage, Example, the markers [PAGE_n] and
\* [/PAGE_n]), no two whitespace characters in a row and no whitespace at
\* either end.
C7_CleanedHasNoMarker ==
    pc = "cleaned" =>
        /\ \A i \in 1..Len(ret) : ~ MarkerAt(ret, i)
        /\ \A i \in 1..(Len(ret) - 1) : ~ (IsSpace(ret[i]) /\ IsSpace(ret[i + 1]))
        /\ ret # <<>> => ~ IsSpace(ret[1]) /\ ~ IsSpace(ret[Len(ret)])

-----------------------------------------------------------------------------
(* Signature lines.  A line is a sequence of atoms: a word ("\w+"), a space,
   a bracket of one of the three kinds, a comma. *)

Brackets == {"<", ">", "[", "]", "(", ")"}

IsWordAtom(a) == a \notin Brackets \cup {" ", ","}

MinOf(S) == CHOOSE x \in S : \A y \in S : x <= y

MaxOf(S) == CHOOSE x \in S : \A y \in S : y <= x

\* The length of the run of spaces of s from index i on.
SpaceRun(s, i) ==
    LET stop == {j \in i..(Len(s) + 1) : j = Len(s) + 1 \/ s[j] # " "}
    IN  MinOf(stop) - i

RECURSIVE LStripSpaces(_)
LStripSpaces(s) == IF s # <<>> /\ Head(s) = " " THEN LStripSpaces(Tail(s)) ELSE s

RECURSIVE RStripSpaces(_)
RStripSpaces(s) ==
    IF s # <<>> /\ s[Len(s)] = " " THEN RStripSpaces(SubSeq(s, 1, Len(s) - 1)) ELSE s

\* str.strip()
StripSpaces(s) == RStripSpaces(LStripSpaces(s))

(* simpleChunker.py: extract_data, the branch of a method signature *)

\* 'public ' in paragraph or 'global ' in paragraph or 'static ' in paragraph
HasKeyword(s) ==
    \E i \in 1..(Len(s) - 1) : s[i] \in {"public", "global", "static"} /\ s[i + 1] = " "

\* A character of the class "[\w<>\[\]\s]" of the return type.
InReturnClass(a) == IsWordAtom(a) \/ a \in {"<", ">", "[", "]", " "}

NoMatch == [matched |-> FALSE, return_type |-> <<>>, name |-> "", parameters_str |-> <<>>]

\* re.match(r'(public|global|static)\s+([\w<>\[\]\s]+)\s+(\w+)\s*\((.*)\)', s):
\* all between the keyword and the "(" is of the return type's class, so the
\* "(" is the first atom past the keyword that is not; the name is the word
\* before it, a space before the name, the return type before that space and
\* a space after the keyword; group 4 runs to the last ")" of the line.
ChunkerMatch(s) ==
    LET out == {j \in 2..Len(s) : ~ InReturnClass(s[j])}
    IN  IF s = <<>> \/ s[1] \notin {"public", "global", "static"} \/ out = {}
        THEN NoMatch
        ELSE LET paren  == MinOf(out)
                 before == {j \in 2..(paren - 1) : s[j] # " "}
                 closes == {j \in (paren + 1)..Len(s) : s[j] = ")"}
             IN  IF s[paren] # "(" \/ before = {} \/ closes = {} THEN NoMatch
                 ELSE LET nameIdx == MaxOf(before)
                      IN  IF /\ IsWordAtom(s[nameIdx])
                             /\ nameIdx >= 5
                             /\ s[nameIdx - 1] = " "
                             /\ s[2] = " "
                          THEN [matched        |-> TRUE,
                                return_type    |-> StripSpaces(SubSeq(s, 3, nameIdx - 2)),
                                name           |-> s[nameIdx],
                                parameters_str |-> SubSeq(s, paren + 1, MaxOf(closes) - 1)]
                          ELSE NoMatch

\* ",\s*(?![^<>\[\]()]*[\])])" matches at the comma at index c: the first
\* bracket after the comma, if any, is neither "]" nor ")".
ChunkerSeparator(str, c) ==
    /\ str[c] = ","
    /\ LET nb == {j \in (c + 1)..Len(str) : str[j] \in Brackets}
       IN  nb = {} \/ str[MinOf(nb)] \notin {"]", ")"}

RECURSIVE ChunkerSplitFrom(_, _, _)
ChunkerSplitFrom(str, i, cur) ==
    IF i > Len(str) THEN <<cur>>
    ELSE IF ChunkerSeparator(str, i)
         THEN <<cur>> \o ChunkerSplitFrom(str, i + 1 + SpaceRun(str, i + 1), <<>>)
    ELSE ChunkerSplitFrom(str, i + 1, Append(cur, str[i]))

\* re.split(r',\s*(?![^<>\[\]()]*[\])])', parameters_str)
ChunkerSplit(str) == ChunkerSplitFrom(str, 1, <<>>)

\* param.strip().split(' '): the type is what stands before the last space
\* (' '.join(param_parts[:-1])), the name what stands after it.
ChunkerParam(param) ==
    LET p  == StripSpaces(param)
        sp == {j \in 1..Len(p) : p[j] = " "}
    IN  IF sp = {} THEN [type |-> <<>>, name |-> p]
        ELSE [type |-> SubSeq(p, 1, MaxOf(sp) - 1),
              name |-> SubSeq(p, MaxOf(sp) + 1, Len(p))]

\* extract_data on a paragraph that is one signature line.
ChunkerEntry(s) ==
    LET m == ChunkerMatch(s)
    IN  IF HasKeyword(s) /\ m.matched
        THEN [type        |-> "method",
              name        |-> m.name,
              return_type |-> m.return_type,
              parameters  |-> IF m.parameters_str # <<>>
                              THEN LET parts == ChunkerSplit(m.parameters_str)
                                   IN  [k \in 1..Len(parts) |-> ChunkerParam(parts[k])]
                              ELSE <<>>]
        ELSE [type |-> "paragraph", name |-> "", return_type |-> <<>>, parameters |-> <<>>]

(* patterns.py: extract_methods on one signature line *)

\* METHOD_START at the head of the line:
\* "^(?:public|private|protected)\s+\w+\s+\w+\s*\(".
MethodStart(s) ==
    /\ s # <<>>
    /\ s[1] \in {"public", "private", "protected"}
    /\ LET a  == SpaceRun(s, 2)
           w1 == 2 + a
           b  == SpaceRun(s, w1 + 1)
           w2 == w1 + 1 + b
           paren == w2 + 1 + SpaceRun(s, w2 + 1)
       IN  /\ a >= 1 /\ w1 <= Len(s) /\ IsWordAtom(s[w1])
           /\ b >= 1 /\ w2 <= Len(s) /\ IsWordAtom(s[w2])
           /\ paren <= Len(s) /\ s[paren] = "("

\* re.search(r'\w+\s*\(', signature).group(0)[:-1].strip(): the first word
\* that a "(" follows, spaces apart; "" when there is none.
MethodName(s) ==
    LET at == {j \in 1..Len(s) :
                 /\ IsWordAtom(s[j])
                 /\ j + 1 + SpaceRun(s, j + 1) <= Len(s)
                 /\ s[j + 1 + SpaceRun(s, j + 1)] = "("}
    IN  IF at = {} THEN "" ELSE s[MinOf(at)]

RECURSIVE SplitCommaFrom(_, _, _)
SplitCommaFrom(str, i, cur) ==
    IF i > Len(str) THEN <<cur>>
    ELSE IF str[i] = "," THEN <<cur>> \o SplitCommaFrom(str, i + 1, <<>>)
    ELSE SplitCommaFrom(str, i + 1, Append(cur, str[i]))

\* ContentExtractor.extract_parameters: re.search(r'\((.*?)\)', signature),
\* the text from the first "(" to the first ")" after it, split on every ",".
extract_parameters(s) ==
    LET opens == {j \in 1..Len(s) : s[j] = "(" /\ \E c \in (j + 1)..Len(s) : s[c] = ")"}
    IN  IF opens = {} THEN <<>>
        ELSE LET open      == MinOf(opens)
                 close     == MinOf({c \in (open + 1)..Len(s) : s[c] = ")"})
                 param_str == SubSeq(s, open + 1, close - 1)
             IN  IF StripSpaces(param_str) # <<>>
                 THEN LET parts == SplitCommaFrom(param_str, 1, <<>>)
                      IN  [k \in 1..Len(parts) |-> StripSpaces(parts[k])]
                 ELSE <<>>

\* extract_methods on a text that is one line: a method when METHOD_START
\* matches it; the return type is read from a "Return ... Type:" line of the
\* method's content, which a lone signature does not have.
MethodEntry(s) ==
    IF MethodStart(s)
    THEN [type        |-> "method",
          name        |-> MethodName(s),
          return_type |-> <<>>,
          parameters  |-> extract_parameters(s)]
    ELSE [type |-> "none", name |-> "", return_type |-> <<>>, parameters |-> <<>>]

(* The signatures generated: a modifier, a return type, a name, parameters *)

TypeTexts ==
    {<<"Integer">>,
     <<"List", "<", "String", ">">>,
     <<"Map", "<", "Id", ",", " ", "String", ">">>,
     <<"List", "<", "Map", "<", "Id", ",", " ", "String", ">", ">">>,
     <<"Integer", "[", "]">>,
     <<"Map", "[", "Id", ",", " ", "String", "]">>,
     <<"Fn", "(", "Id", ",", " ", "String", ")">>}

ParamNames == <<"i", "s", "t", "u">>

Signatures ==
    [modifier : {"public", "private"},
     return_type : TypeTexts,
     name : {"getThing"},
     params : UNION {[1..n -> TypeTexts] : n \in 0..MaxParams}]

\* The token of the k-th parameter: its type, a space, its name.
ParamText(sig, k) == sig.params[k] \o <<" ", ParamNames[k]>>

RECURSIVE ParamList(_, _)
ParamList(sig, k) ==
    IF k > Len(sig.params) THEN <<>>
    ELSE IF k = Len(sig.params) THEN ParamText(sig, k)
    ELSE ParamText(sig, k) \o <<",", " ">> \o ParamList(sig, k + 1)

\* The line of a signature.
SigLine(sig) ==
    <<sig.modifier, " ">> \o sig.return_type \o <<" ", sig.name, "(">>
        \o ParamList(sig, 1) \o <<")">>

NoEntry == [type |-> "none", name |-> "", return_type |-> <<>>, parameters |-> <<>>]

InitSig ==
    /\ pc = "sig_in"
    /\ arg \in Signatures
    /\ ret = NoEntry
    /\ PipelineIdle

\* simpleChunker.extract_data reads the line.
ChunkSignature ==
    /\ pc = "sig_in"
    /\ ret' = ChunkerEntry(SigLine(arg))
    /\ pc' = "sig_chunked"
    /\ UNCHANGED arg
    /\ UNCHANGED pipeVars

\* ContentExtractor.extract_methods reads the line.
ExtractSignature ==
    /\ pc = "sig_in"
    /\ ret' = MethodEntry(SigLine(arg))
    /\ pc' = "sig_extracted"
    /\ UNCHANGED arg
    /\ UNCHANGED pipeVars

NextSig == ChunkSignature \/ ExtractSignature

SpecSig == InitSig /\ [][NextSig]_vars

\* C4: the parameter string is what stands strictly inside the outermost
\* parentheses and is split on commas at bracket depth zero only: a comma
\* inside the (), <> or [] of a parameter type never splits the list, so a
\* recognised signature gives one parameter per parameter of its list.
C4_SplitAtDepthZeroOnly ==
    /\ (pc = "sig_chunked" /\ ret.type = "method") =>
          /\ Len(ret.parameters) = Len(arg.params)
          /\ \A k \in 1..Len(ret.parameters) :
                ret.parameters[k].type \o <<" ">> \o ret.parameters[k].name
                    = ParamText(arg, k)
    /\ (pc = "sig_extracted" /\ ret.type = "method") =>
          /\ Len(ret.parameters) = Len(arg.params)
          /\ \A k \in 1..Len(ret.parameters) : ret.parameters[k] = ParamText(arg, k)

\* The parameters of the signature are of a type without brackets.
PlainParams(sig) == \A k \in 1..Len(sig.params) : sig.params[k] = <<"Integer">>

\* C5: a line of the shape modifier, return type, name, parameter list is
\* recognised as a method whatever brackets and commas the return type
\* holds; its return type is all between the modifier and the name, its name
\* the identifier before the "(", each parameter a {type, name} pair whose
\* name is the last word of its token.
C5_SignatureParsed ==
    /\ (pc = "sig_chunked" /\ arg.modifier = "public" /\ PlainParams(arg)) =>
          /\ ret.type = "method"
          /\ ret.return_type = arg.return_type
          /\ ret.name = arg.name
          /\ Len(ret.parameters) = Len(arg.params)
          /\ \A k \in 1..Len(ret.parameters) :
                /\ ret.parameters[k].type = arg.params[k]
                /\ ret.parameters[k].name = <<ParamNames[k]>>
    /\ (pc = "sig_extracted" /\ PlainParams(arg)) =>
          /\ ret.type = "method"
          /\ ret.name = arg.name
          /\ Len(ret.parameters) = Len(arg.params)

-----------------------------------------------------------------------------
(* The description of a heading: NAMESPACE_DESC and CLASS_DESC of patterns.py
   and extract_section_description of apex_parser.py.  The content is the
   heading line and the lines after it, a line one token, no line with
   leading or trailing blanks. *)

\* The number of lines after the heading.
MaxDescLines == 4

\* A line of ordinary text that begins with a capital letter: "Some text".
CapLine == Tok("cap", 0)

\* A line that holds one section label of PDFPatterns.SECTION_MARKERS:
\* 1 "IN THIS SECTION:", 2 "SEE ALSO:", 3 "Usage", 4 "Example".
Label(n) == Tok("label", n)

\* A line with no character: two newlines in a row in the text.
EmptyLine == Tok("empty", 0)

DescLineTokens ==
    {Word, CapLine, EmptyLine, MethodLine} \cup {Label(n) : n \in 1..4}

RECURSIVE ContentOf(_)
\* The text of the lines after a heading, each after a newline.
ContentOf(lines) ==
    IF lines = <<>> THEN <<>>
    ELSE (IF Head(lines) = EmptyLine THEN <<NL>> ELSE <<NL, Head(lines)>>)
             \o ContentOf(Tail(lines))

\* "[A-Z]" at the first character of a line.
StartsUpper(tok) ==
    tok.k \in {"cap", "label", "ns", "cls", "stmt", "title", "intro"}

\* clean_description on a text of whole lines: the lines "IN THIS SECTION:"
\* and "SEE ALSO:" and the [PAGE_n] markers go, every run of whitespace
\* becomes one blank and the ends are stripped; what is left is the other
\* lines in order, one blank between two of them.
CleanLines(t) ==
    SelectSeq(t, LAMBDA tok : /\ tok # NL
                              /\ tok \notin {Label(1), Label(2)}
                              /\ tok.k # "open")

RECURSIVE StripLines(_)
\* str.strip(): the newlines at both ends go.
StripLines(t) ==
    IF t = <<>> THEN <<>>
    ELSE IF Head(t) = NL THEN StripLines(Tail(t))
    ELSE IF t[Len(t)] = NL THEN StripLines(SubSeq(t, 1, Len(t) - 1))
    ELSE t

\* re.search(NAMESPACE_DESC, section_content, re.DOTALL), stripped and
\* cleaned: "(?<=Namespace\n)(.*?)(?=\n\n|\n[A-Z])" starts right after the
\* first "Namespace\n" and ends, as early as it can, before a newline that a
\* second newline or a capital letter follows; '' when nothing matches.
NamespaceDesc(content) ==
    LET Ends(p) == {q \in p..(Len(content) - 2) :
                       /\ At(content, q) = NL
                       /\ \/ At(content, q + 1) = NL
                          \/ StartsUpper(At(content, q + 1))}
        starts  == {p \in 2..Len(content) :
                       /\ At(content, p - 2).k = "ns"
                       /\ At(content, p - 1) = NL
                       /\ Ends(p) # {}}
    IN  IF starts = {} THEN <<>>
        ELSE CleanLines(Slice(content, MinOf(starts), MinOf(Ends(MinOf(starts)))))

\* A newline that "IN THIS SECTION:", "SEE ALSO:", "public", "private" or
\* "protected" follows: the lookahead of CLASS_DESC.
ClassDescEnd(content, q) ==
    /\ q + 1 < Len(content)
    /\ At(content, q) = NL
    /\ At(content, q + 1) \in {Label(1), Label(2), MethodLine}

\* "Class\s+(.*?)(?=...)" tried at the "Class" of the heading at offset c:
\* "\s+" takes the whole run of newlines and the group ends before the first
\* lookahead newline after the run; failing that "\s+" gives back the run's
\* last newline, which the lookahead then takes, the group being empty.
ClassDescAt(content, c) ==
    LET r    == MinOf({j \in (c + 1)..Len(content) :
                          j = Len(content) \/ At(content, j) # NL})
        ends == {q \in r..(Len(content) - 2) : ClassDescEnd(content, q)}
    IN  IF r = c + 1 THEN None
        ELSE IF ends # {} THEN Some(Slice(content, r, MinOf(ends)))
        ELSE IF r - 1 >= c + 2 /\ ClassDescEnd(content, r - 1) THEN Some(<<>>)
        ELSE None

\* re.search(CLASS_DESC, class_content, re.DOTALL), stripped and cleaned; ''
\* when nothing matches.
ClassDesc(content) ==
    LET hits == {c \in Offsets(content) :
                    /\ At(content, c).k = "cls"
                    /\ ~ ClassDescAt(content, c).none}
    IN  IF hits = {} THEN <<>>
        ELSE CleanLines(ClassDescAt(content, MinOf(hits)).s)

\* ApexDocParser.extract_section_description: from start_pos to the first
\* "\n\n", or to the end of the text when there is none, stripped.
extract_section_description(t, start_pos) ==
    LET ends == {q \in start_pos..(Len(t) - 2) :
                    At(t, q) = NL /\ At(t, q + 1) = NL}
    IN  IF ends # {}
        THEN StripLines(Slice(t, start_pos, MinOf(ends)))
        ELSE StripLines(Slice(t, start_pos, Len(t)))

\* A heading line and the lines after it.
InitDesc ==
    /\ pc = "desc_in"
    /\ \E h \in {Heading("ns", 1), Heading("cls", 1)} :
       \E lines \in UNION {[1..n -> DescLineTokens] : n \in 0..MaxDescLines} :
           arg = <<h>> \o ContentOf(lines)
    /\ ret = <<>>
    /\ PipelineIdle

\* extract_namespaces: the description of the namespace at the head of
\* section_content.
NamespaceDescription ==
    /\ pc = "desc_in"
    /\ arg[1].k = "ns"
    /\ ret' = NamespaceDesc(arg)
    /\ pc' = "ns_described"
    /\ UNCHANGED arg
    /\ UNCHANGED pipeVars

\* extract_classes: the description of the class at the head of class_content.
ClassDescription ==
    /\ pc = "desc_in"
    /\ arg[1].k = "cls"
    /\ ret' = ClassDesc(arg)
    /\ pc' = "cls_described"
    /\ UNCHANGED arg
    /\ UNCHANGED pipeVars

\* ApexDocParser.extract_namespaces: the description of the heading, taken
\* from match.end(), the end of the heading line.
SectionDescription ==
    /\ pc = "desc_in"
    /\ ret' = extract_section_description(arg, 1)
    /\ pc' = "section_described"
    /\ UNCHANGED arg
    /\ UNCHANGED pipeVars

NextDesc == NamespaceDescription \/ ClassDescription \/ SectionDescription

SpecDesc == InitDesc /\ [][NextDesc]_vars

\* The lines of a text, its newlines left out.
LinesOf(t) == SelectSeq(t, LAMBDA tok : tok # NL)

\* The lines from the end of the heading line up to the first blank line or
\* the first section label, whichever comes first; none when the content has
\* neither.
ExpectedDesc(content) ==
    LET ends == {q \in 1..(Len(content) - 1) :
                    \/ At(content, q).k = "label"
                    \/ /\ q + 1 < Len(content)
                       /\ At(content, q) = NL
                       /\ At(content, q + 1) = NL}
    IN  IF ends = {} THEN <<>>
        ELSE LinesOf(Slice(content, 1, MinOf(ends)))

\* C12: the description of a namespace or class heading is the text from the
\* end of the heading line up to the first blank line or the first section
\* label ("IN THIS SECTION:", "SEE ALSO:", "Usage", "Example"), whichever
\* comes first, trimmed; a line break before an ordinary line, one that starts
\* with a capital letter too, does not end it, and with no blank line and no
\* label after the heading the description is empty.
C12_DescriptionToBlankOrLabel ==
    pc \in {"ns_described", "cls_described", "section_described"} =>
        LinesOf(ret) = ExpectedDesc(arg)

====
